---- MODULE Spec2Model ----
(***************************************************************************)
(* Model of oracles/src/domain/llm/openai_structured_llm.py: the coroutine *)
(* execute(chat, output_model) wrapped by                                  *)
(*   backoff.on_exception(backoff.expo,                                    *)
(*       (openai.RateLimitError, openai.APITimeoutError), max_tries=3).    *)
(* Each caller runs one call of execute at a time; the calls of different  *)
(* callers interleave at the await points (the remote request and the      *)
(* backoff sleep).                                                         *)
(***************************************************************************)
EXTENDS Integers, Sequences, FiniteSets, TLC

VARIABLES chat, output_model, pc, tries, requests, outcomes, waits, result, error

vars == <<chat, output_model, pc, tries, requests, outcomes, waits, result, error>>

(* ---------------------------------------------------------------------- *)
(* Values                                                                  *)
(* ---------------------------------------------------------------------- *)

\* Python's None as the value of an argument or of a field.
None == "None"

\* Python's None as the value a call returns.
NoneValue == [py |-> "None"]

\* Markers of the model: the call has not returned a value / has not raised;
\* the attempt got no response.
Nothing == "Nothing"
NoValue == [py |-> "Nothing"]

\* The coroutines that may be in flight at the same time.
Callers == {"a", "b"}

\* The caller of the sequential specification.
Main == "a"

\* Granularity of the jittered sleep: a second is split in JitterSteps ticks.
JitterSteps == 1

\* src.domain.llm.utils.TIMEOUT, the fixed per-request timeout of the client.
TIMEOUT == "TIMEOUT"

\* max_tries=3 of the decorator.
max_tries == 3

\* backoff.expo defaults: base=2, factor=1.
expo_base == 2
expo_factor == 1

\* Conversations a caller may pass (messages + the full configuration bundle).
Chat1 ==
    [ messages |-> <<"user:q">>,
      config   |-> [ model |-> "gpt-a", frequency_penalty |-> "0.0", logit_bias |-> None,
                     max_tokens |-> "16", presence_penalty |-> "0.0", response_format |-> None,
                     seed |-> None, temperature |-> "0.0", top_p |-> "1.0", tools |-> None,
                     tool_choice |-> None, user |-> "u1" ] ]
Chat2 ==
    [ messages |-> <<"system:s", "user:q">>,
      config   |-> [ model |-> "gpt-b", frequency_penalty |-> "0.5", logit_bias |-> None,
                     max_tokens |-> "32", presence_penalty |-> "0.5", response_format |-> "json_object",
                     seed |-> "7", temperature |-> "1.0", top_p |-> "0.9", tools |-> "fn_tools",
                     tool_choice |-> "auto", user |-> "u2" ] ]
Chats == {Chat1, Chat2}

\* No conversation: the caller has made no call yet.
NoChat == [py |-> "None"]

\* output_model: Optional[Type[BaseModel]] = None
OutputModels == {None, "SchemaA"}

\* Exceptions of the remote client.
RateLimitError  == "RateLimitError"
APITimeoutError == "APITimeoutError"
BadRequestError == "BadRequestError"
AssertionError  == "AssertionError"

\* What a remote request may raise.
RemoteErrors == {RateLimitError, APITimeoutError, BadRequestError}

\* message.content and message.tool_calls of the first choice.
Contents  == {None, "", "text"}
ToolCalls == {<<>>, <<"call_1">>}

(* ---------------------------------------------------------------------- *)
(* The decorator                                                           *)
(* ---------------------------------------------------------------------- *)

\* The exception tuple of on_exception.
RetryableMutC5 == {RateLimitError, APITimeoutError, BadRequestError}
Retryable == {RateLimitError, APITimeoutError}

\* tries == max_tries of the retry loop, tries being local to one call.
max_tries_exceededMutC2(i) == tries[i] > max_tries
max_tries_exceededMutC8(i) == \E j \in Callers \ {i} : tries[i] + tries[j] >= max_tries
max_tries_exceeded(i) == tries[i] = max_tries

\* raise_on_giveup=True (default of on_exception): the last error is re-raised.
raise_on_giveupMutC9 == FALSE
raise_on_giveup == TRUE

RECURSIVE Pow(_, _)
Pow(b, n) == IF n = 0 THEN 1 ELSE b * Pow(b, n - 1)

\* backoff.expo: the n-th value (n = 1, 2, ...) is factor * base ** (n - 1).
expoMutC10(n) == expo_factor * Pow(expo_base, n)
expo(n) == expo_factor * Pow(expo_base, n - 1)

\* jitter=full_jitter (default of on_exception): random.uniform(0, value),
\* in ticks of 1/JitterSteps second.
full_jitter(value) == 0 .. (value * JitterSteps)

(* ---------------------------------------------------------------------- *)
(* The body of execute                                                     *)
(* ---------------------------------------------------------------------- *)

\* client.chat.completions.parse(...)
ParseRequestMutC6(c, m) ==
    [ method |-> "parse", timeout |-> TIMEOUT, messages |-> c.messages,
      model |-> c.config.model, frequency_penalty |-> c.config.frequency_penalty,
      logit_bias |-> c.config.logit_bias, max_tokens |-> c.config.max_tokens,
      presence_penalty |-> c.config.presence_penalty,
      response_format |-> c.config.response_format,
      seed |-> c.config.seed, temperature |-> c.config.temperature,
      top_p |-> c.config.top_p, tools |-> c.config.tools,
      tool_choice |-> c.config.tool_choice, user |-> c.config.user ]
ParseRequest(c, m) ==
    [ method |-> "parse", timeout |-> TIMEOUT, messages |-> c.messages,
      model |-> c.config.model, frequency_penalty |-> c.config.frequency_penalty,
      logit_bias |-> c.config.logit_bias, max_tokens |-> c.config.max_tokens,
      presence_penalty |-> c.config.presence_penalty,
      response_format |-> m,
      seed |-> c.config.seed, temperature |-> c.config.temperature,
      top_p |-> c.config.top_p, tools |-> c.config.tools,
      tool_choice |-> c.config.tool_choice, user |-> c.config.user ]

\* client.chat.completions.create(...)
CreateRequestMutC7(c) ==
    [ method |-> "create", timeout |-> TIMEOUT, messages |-> c.messages,
      model |-> c.config.model, frequency_penalty |-> c.config.frequency_penalty,
      logit_bias |-> c.config.logit_bias, max_tokens |-> c.config.max_tokens,
      presence_penalty |-> c.config.presence_penalty,
      response_format |-> c.config.response_format,
      seed |-> IF c.config.seed = None THEN "0" ELSE c.config.seed,
      temperature |-> c.config.temperature,
      top_p |-> c.config.top_p, tools |-> c.config.tools,
      tool_choice |-> c.config.tool_choice, user |-> c.config.user ]
CreateRequest(c) ==
    [ method |-> "create", timeout |-> TIMEOUT, messages |-> c.messages,
      model |-> c.config.model, frequency_penalty |-> c.config.frequency_penalty,
      logit_bias |-> c.config.logit_bias, max_tokens |-> c.config.max_tokens,
      presence_penalty |-> c.config.presence_penalty,
      response_format |-> c.config.response_format,
      seed |-> c.config.seed, temperature |-> c.config.temperature,
      top_p |-> c.config.top_p, tools |-> c.config.tools,
      tool_choice |-> c.config.tool_choice, user |-> c.config.user ]

\* if output_model is not None: parse(...) else: create(...)
Request(c, m) == IF m # None THEN ParseRequest(c, m) ELSE CreateRequest(c)

\* message.parsed as the client fills it for a parse request: the object of
\* the requested schema when the message has content, None otherwise.
maybe_parse_content(req, content) ==
    IF req.method = "parse" /\ content \notin {None, ""}
    THEN [ py |-> req.response_format, from |-> content ]
    ELSE NoneValue

\* The completions the remote may answer a request with (first choice only).
Responses(req) ==
    { [ py |-> "ChatCompletion", method |-> req.method, content |-> c,
        tool_calls |-> t, parsed |-> maybe_parse_content(req, c) ]
      : c \in Contents, t \in ToolCalls }

\* What an attempt ended with: an exception of the client or a response.
Raised(e) == [exc |-> e, resp |-> NoValue]
Answered(resp) == [exc |-> None, resp |-> resp]

\* assert message.content or message.tool_calls
AssertHoldsMutC4(resp) == TRUE
AssertHoldsMutC3(resp) == resp.content \notin {None, ""} /\ Len(resp.tool_calls) > 0
AssertHolds(resp) == resp.content \notin {None, ""} \/ Len(resp.tool_calls) > 0

\* return message.parsed if output_model is not None else chat_completion
ReturnValue(m, resp) == IF m # None THEN resp.parsed ELSE resp

(* ---------------------------------------------------------------------- *)
(* State machine                                                           *)
(* ---------------------------------------------------------------------- *)

Init ==
    /\ chat = [i \in Callers |-> NoChat]
    /\ output_model = [i \in Callers |-> None]
    /\ pc = [i \in Callers |-> "idle"]
    /\ tries = [i \in Callers |-> 0]
    /\ requests = [i \in Callers |-> <<>>]
    /\ outcomes = [i \in Callers |-> <<>>]
    /\ waits = [i \in Callers |-> <<>>]
    /\ result = [i \in Callers |-> NoValue]
    /\ error = [i \in Callers |-> Nothing]

\* The caller awaits execute(c, m): the retry wrapper starts with tries = 0.
Call(i, c, m) ==
    /\ pc[i] \in {"idle", "done"}
    /\ chat' = [chat EXCEPT ![i] = c]
    /\ output_model' = [output_model EXCEPT ![i] = m]
    /\ pc' = [pc EXCEPT ![i] = "try"]
    /\ tries' = [tries EXCEPT ![i] = 0]
    /\ requests' = [requests EXCEPT ![i] = <<>>]
    /\ outcomes' = [outcomes EXCEPT ![i] = <<>>]
    /\ waits' = [waits EXCEPT ![i] = <<>>]
    /\ result' = [result EXCEPT ![i] = NoValue]
    /\ error' = [error EXCEPT ![i] = Nothing]

\* tries += 1; the body builds a client and issues the request.
Attempt(i) ==
    /\ pc[i] = "try"
    /\ tries' = [tries EXCEPT ![i] = @ + 1]
    /\ requests' = [requests EXCEPT ![i] = Append(@, Request(chat[i], output_model[i]))]
    /\ pc' = [pc EXCEPT ![i] = "await"]
    /\ UNCHANGED <<chat, output_model, outcomes, waits, result, error>>

\* The request raises an exception of the tuple and tries remain: sleep.
Backoff(i, e) ==
    /\ pc[i] = "await"
    /\ e \in Retryable
    /\ ~max_tries_exceeded(i)
    /\ \E seconds \in full_jitter(expo(Len(waits[i]) + 1)) :
           waits' = [waits EXCEPT ![i] = Append(@, seconds)]
    /\ outcomes' = [outcomes EXCEPT ![i] = Append(@, Raised(e))]
    /\ pc' = [pc EXCEPT ![i] = "sleep"]
    /\ UNCHANGED <<chat, output_model, tries, requests, result, error>>

\* The request raises an exception of the tuple on the last try: give up.
GiveUp(i, e) ==
    /\ pc[i] = "await"
    /\ e \in Retryable
    /\ max_tries_exceeded(i)
    /\ outcomes' = [outcomes EXCEPT ![i] = Append(@, Raised(e))]
    /\ IF raise_on_giveup
       THEN error' = [error EXCEPT ![i] = e] /\ UNCHANGED result
       ELSE result' = [result EXCEPT ![i] = NoneValue] /\ UNCHANGED error
    /\ pc' = [pc EXCEPT ![i] = "done"]
    /\ UNCHANGED <<chat, output_model, tries, requests, waits>>

\* The request raises an exception outside the tuple: it propagates.
Propagate(i, e) ==
    /\ pc[i] = "await"
    /\ e \in RemoteErrors \ Retryable
    /\ outcomes' = [outcomes EXCEPT ![i] = Append(@, Raised(e))]
    /\ error' = [error EXCEPT ![i] = e]
    /\ pc' = [pc EXCEPT ![i] = "done"]
    /\ UNCHANGED <<chat, output_model, tries, requests, waits, result>>

\* A response arrives and the assert fails: AssertionError is outside the tuple.
AssertFail(i, resp) ==
    /\ pc[i] = "await"
    /\ resp \in Responses(requests[i][Len(requests[i])])
    /\ ~AssertHolds(resp)
    /\ outcomes' = [outcomes EXCEPT ![i] = Append(@, Answered(resp))]
    /\ error' = [error EXCEPT ![i] = AssertionError]
    /\ pc' = [pc EXCEPT ![i] = "done"]
    /\ UNCHANGED <<chat, output_model, tries, requests, waits, result>>

\* A response arrives and passes the assert: the body returns.
Return(i, resp) ==
    /\ pc[i] = "await"
    /\ resp \in Responses(requests[i][Len(requests[i])])
    /\ AssertHolds(resp)
    /\ outcomes' = [outcomes EXCEPT ![i] = Append(@, Answered(resp))]
    /\ result' = [result EXCEPT ![i] = ReturnValue(output_model[i], resp)]
    /\ pc' = [pc EXCEPT ![i] = "done"]
    /\ UNCHANGED <<chat, output_model, tries, requests, waits, error>>

\* asyncio.sleep(seconds) is over: the loop goes round.
Wake(i) ==
    /\ pc[i] = "sleep"
    /\ pc' = [pc EXCEPT ![i] = "try"]
    /\ UNCHANGED <<chat, output_model, tries, requests, outcomes, waits, result, error>>

AllResponses == UNION { Responses(Request(c, m)) : c \in Chats, m \in OutputModels }

Run(i) ==
    \/ Attempt(i)
    \/ \E e \in RemoteErrors : Backoff(i, e)
    \/ \E e \in RemoteErrors : GiveUp(i, e)
    \/ \E e \in RemoteErrors : Propagate(i, e)
    \/ \E resp \in AllResponses : AssertFail(i, resp)
    \/ \E resp \in AllResponses : Return(i, resp)
    \/ Wake(i)

\* One caller makes call after call, with any conversation and schema.
Next ==
    \/ \E c \in Chats, m \in OutputModels : Call(Main, c, m)
    \/ Run(Main)

Spec == Init /\ [][Next]_vars

\* The event loop resumes a coroutine that can go on, and every request
\* completes (the client's timeout bounds it).
FairSpec == Spec /\ WF_vars(Run(Main))

\* Arguments of the callers of the concurrent specification: one call on
\* each path of the body.
ConcChat(i) == IF i = Main THEN Chat1 ELSE Chat2
ConcModel(i) == IF i = Main THEN None ELSE "SchemaA"

\* Two callers, their calls interleaved at the await points.
NextConc ==
    \/ \E i \in Callers : Call(i, ConcChat(i), ConcModel(i))
    \/ \E i \in Callers : Run(i)

ConcSpec == Init /\ [][NextConc]_vars

(* ---------------------------------------------------------------------- *)
(* Vocabulary of the properties                                            *)
(* ---------------------------------------------------------------------- *)

Running(i) == pc[i] \in {"try", "await", "sleep"}
Returned(i) == pc[i] = "done" /\ result[i] # NoValue
Failed(i) == pc[i] = "done" /\ error[i] # Nothing
Last(s) == s[Len(s)]

\* The attempt failed with a rate-limit or a request-timeout error.
RetryableFailure(o) == o.exc \in {"RateLimitError", "APITimeoutError"}
\* The attempt failed with another error of the client.
OtherFailure(o) == o.exc \notin {"None", "RateLimitError", "APITimeoutError"}
\* The attempt got a response with non-empty content or at least one tool call.
ValidAnswer(o) ==
    o.exc = "None" /\ (o.resp.content \notin {"None", ""} \/ Len(o.resp.tool_calls) >= 1)
\* The attempt got a response with empty content and an empty tool-call list.
EmptyAnswer(o) ==
    o.exc = "None" /\ o.resp.content \in {"None", ""} /\ Len(o.resp.tool_calls) = 0
\* All attempts before the k-th failed with a retryable error.
RetryableBefore(i, k) == \A n \in 1 .. (k - 1) : RetryableFailure(outcomes[i][n])

(* ---------------------------------------------------------------------- *)
(* Properties                                                              *)
(* ---------------------------------------------------------------------- *)

\* C1: every call that returns successfully returns the raw completion
\* envelope when no schema was supplied and the object typed by the schema
\* when one was supplied, whatever validated response it got.
C1_ResultKindBySchema ==
    \A i \in Callers :
        (pc[i] = "done" /\ error[i] = Nothing) =>
            IF output_model[i] = None
            THEN result[i].py = "ChatCompletion"
            ELSE result[i].py = output_model[i]

\* C2: at most 3 requests are issued per call, and when the first 3 attempts
\* all fail with a rate-limit or timeout error (in any mix) the call is over,
\* the third error is the one raised and nothing is returned.
C2_AtMostThreeAttempts ==
    \A i \in Callers :
        /\ tries[i] <= 3
        /\ Len(requests[i]) <= 3
        /\ (Len(outcomes[i]) >= 3 /\ RetryableBefore(i, 4)) =>
               /\ pc[i] = "done"
               /\ error[i] = outcomes[i][3].exc
               /\ result[i] = NoValue
               /\ Len(requests[i]) = 3
               /\ Len(outcomes[i]) = 3

\* C2 witness: a call gave up after a mix of rate-limit and timeout errors.
C2_Witness ==
    \E i \in Callers :
        /\ pc[i] = "done"
        /\ Len(outcomes[i]) = 3
        /\ outcomes[i][1].exc = "RateLimitError"
        /\ outcomes[i][2].exc = "APITimeoutError"
        /\ outcomes[i][3].exc = "RateLimitError"
        /\ error[i] = "RateLimitError"

\* C3: when attempt k (k in 1..3) gets a valid response after k-1 retryable
\* failures, the call returns at once the result of that response (the
\* envelope, or its parsed field when a schema was supplied) and exactly k
\* attempts were made.
C3_SuccessOnAttemptK ==
    [][ \A i \in Callers :
          ( /\ pc[i] = "await"
            /\ Len(outcomes'[i]) = Len(outcomes[i]) + 1
            /\ ValidAnswer(Last(outcomes'[i])) ) =>
              /\ pc'[i] = "done"
              /\ error'[i] = Nothing
              /\ tries'[i] = Len(outcomes'[i])
              /\ Len(requests'[i]) = Len(outcomes'[i])
              /\ tries'[i] \in 1 .. 3
              /\ \A n \in 1 .. (Len(outcomes[i])) : RetryableFailure(outcomes[i][n])
              /\ result'[i] = IF output_model[i] = None
                              THEN Last(outcomes'[i]).resp
                              ELSE Last(outcomes'[i]).resp.parsed ]_vars

\* C3 witness: failures on attempts 1 and 2, success on attempt 3.
C3_Witness ==
    \E i \in Callers :
        /\ Returned(i)
        /\ tries[i] = 3
        /\ RetryableFailure(outcomes[i][1])
        /\ RetryableFailure(outcomes[i][2])
        /\ ValidAnswer(outcomes[i][3])
        /\ result[i] = outcomes[i][3].resp

\* C4: a response with empty content and an empty tool-call list, on
\* whichever attempt, ends the call with the assertion error, with no attempt
\* after it and no result; a returned result always comes from a response
\* with content or a tool call.
C4_EmptyResponseIsFatal ==
    \A i \in Callers :
        /\ \A k \in 1 .. Len(outcomes[i]) :
               EmptyAnswer(outcomes[i][k]) =>
                   /\ pc[i] = "done"
                   /\ error[i] = "AssertionError"
                   /\ result[i] = NoValue
                   /\ k = Len(outcomes[i])
                   /\ Len(requests[i]) = k
                   /\ tries[i] = k
        /\ result[i] # NoValue =>
               /\ Len(outcomes[i]) >= 1
               /\ ValidAnswer(Last(outcomes[i]))

\* C4 witness: an empty response on a second attempt, with a schema.
C4_Witness ==
    \E i \in Callers :
        /\ Failed(i)
        /\ output_model[i] # None
        /\ Len(outcomes[i]) = 2
        /\ RetryableFailure(outcomes[i][1])
        /\ EmptyAnswer(outcomes[i][2])
        /\ error[i] = "AssertionError"

\* C5: an error of the client that is neither a rate-limit nor a timeout
\* error is raised to the caller at once: it is the last attempt, n + 1
\* attempts were made after n retryable failures, and nothing is returned.
C5_OtherErrorPropagates ==
    \A i \in Callers :
        \A k \in 1 .. Len(outcomes[i]) :
            OtherFailure(outcomes[i][k]) =>
                /\ pc[i] = "done"
                /\ error[i] = outcomes[i][k].exc
                /\ result[i] = NoValue
                /\ k = Len(outcomes[i])
                /\ Len(requests[i]) = k
                /\ tries[i] = k
                /\ Len(waits[i]) = k - 1
                /\ RetryableBefore(i, k)

\* C5 witness: a non-retryable error on the first attempt, and one after a
\* retryable failure, both seen (the second is the state described).
C5_Witness ==
    \E i \in Callers :
        /\ Failed(i)
        /\ Len(outcomes[i]) = 2
        /\ RetryableFailure(outcomes[i][1])
        /\ outcomes[i][2].exc = "BadRequestError"
        /\ error[i] = "BadRequestError"
        /\ tries[i] = 2

\* C6: every attempt issues exactly one request; with a schema every request
\* of the call is a parse request whose response format is the schema,
\* without a schema every request is a create request whose response format
\* is the conversation's hint; one call never issues both shapes.
C6_RequestShapeBySchema ==
    \A i \in Callers :
        /\ Len(requests[i]) = tries[i]
        /\ Len(outcomes[i]) = IF pc[i] = "await" THEN tries[i] - 1 ELSE tries[i]
        /\ \A k \in 1 .. Len(requests[i]) :
               IF output_model[i] # None
               THEN /\ requests[i][k].method = "parse"
                    /\ requests[i][k].response_format = output_model[i]
               ELSE /\ requests[i][k].method = "create"
                    /\ requests[i][k].response_format = chat[i].config.response_format
        /\ \A k, n \in 1 .. Len(requests[i]) :
               requests[i][k].method = requests[i][n].method

\* C6 witness: a retried call with a schema and a conversation whose own
\* response-format hint differs from the schema.
C6_Witness ==
    \E i \in Callers :
        /\ output_model[i] = "SchemaA"
        /\ Len(requests[i]) = 3
        /\ chat[i] = Chat2
        /\ chat[i].config.response_format = "json_object"
        /\ requests[i][3].method = "parse"

\* The parameters of a request are those of the conversation.
SameParameters(req, c) ==
    /\ req.messages = c.messages
    /\ req.model = c.config.model
    /\ req.frequency_penalty = c.config.frequency_penalty
    /\ req.logit_bias = c.config.logit_bias
    /\ req.max_tokens = c.config.max_tokens
    /\ req.presence_penalty = c.config.presence_penalty
    /\ req.seed = c.config.seed
    /\ req.temperature = c.config.temperature
    /\ req.top_p = c.config.top_p
    /\ req.tools = c.config.tools
    /\ req.tool_choice = c.config.tool_choice
    /\ req.user = c.config.user
    /\ req.timeout = "TIMEOUT"

\* C7: a call leaves the conversation and the schema as they were on every
\* step and whatever its outcome, a new call starts from nothing of the
\* previous one, and every attempt sends the conversation's messages and
\* parameters and the fixed timeout, unchanged.
C7_NoSideEffects ==
    /\ [](\A i \in Callers : \A k \in 1 .. Len(requests[i]) :
              /\ SameParameters(requests[i][k], chat[i])
              /\ requests[i][k] = requests[i][1])
    /\ [][ \A i \in Callers :
              /\ Running(i) => (chat'[i] = chat[i] /\ output_model'[i] = output_model[i])
              /\ (pc[i] = "done" /\ pc'[i] = "try") =>
                    /\ tries'[i] = 0
                    /\ requests'[i] = <<>>
                    /\ outcomes'[i] = <<>>
                    /\ waits'[i] = <<>>
                    /\ result'[i] = NoValue
                    /\ error'[i] = Nothing ]_vars

\* C7 witness: a call without a schema, with a conversation that leaves
\* parameters unset, is over after three attempts.
C7_Witness ==
    \E i \in Callers :
        /\ pc[i] = "done"
        /\ chat[i] = Chat1
        /\ output_model[i] = None
        /\ Len(requests[i]) = 3
        /\ requests[i][3].seed = None

\* What a finished call must be, given the outcomes of its own attempts.
OwnOutcome(i) ==
    LET h == outcomes[i] IN
    /\ Len(h) = tries[i]
    /\ Len(h) \in 1 .. 3
    /\ RetryableBefore(i, Len(h))
    /\ Len(waits[i]) = Len(h) - 1
    /\ IF ValidAnswer(Last(h))
       THEN error[i] = Nothing /\ result[i] # NoValue
       ELSE IF EmptyAnswer(Last(h))
       THEN error[i] = "AssertionError" /\ result[i] = NoValue
       ELSE /\ error[i] = Last(h).exc
            /\ result[i] = NoValue
            /\ RetryableFailure(Last(h)) => Len(h) = 3

\* C8: with calls interleaved, a step of one call changes nothing of another
\* call, a call with a retryable failure and attempts left goes on to its
\* next attempt, and a finished call is what the outcomes of its own
\* attempts make it.
C8_CallsAreIndependent ==
    /\ [](\A i \in Callers :
              /\ pc[i] = "done" => OwnOutcome(i)
              /\ pc[i] = "sleep" => (Len(outcomes[i]) = tries[i] /\ tries[i] < 3))
    /\ [][ \A i, j \in Callers :
              (i # j /\ pc'[j] # pc[j]) =>
                  /\ pc'[i] = pc[i]
                  /\ tries'[i] = tries[i]
                  /\ requests'[i] = requests[i]
                  /\ outcomes'[i] = outcomes[i]
                  /\ waits'[i] = waits[i]
                  /\ result'[i] = result[i]
                  /\ error'[i] = error[i]
                  /\ chat'[i] = chat[i]
                  /\ output_model'[i] = output_model[i] ]_vars

\* C8 witness: one call gave up after 3 attempts while the other one, in
\* flight at the same time, is on its second attempt.
C8_Witness ==
    \E i, j \in Callers :
        /\ i # j
        /\ pc[i] = "done"
        /\ tries[i] = 3
        /\ RetryableFailure(outcomes[i][3])
        /\ pc[j] = "await"
        /\ tries[j] = 2

\* C9: every call whose attempts each complete is eventually over, and a
\* call that is over has either returned a value computed from a validated
\* response or raised an error (a retryable one after 3 attempts, or a
\* non-retryable one), never both and never neither; a call that is not over
\* has neither returned nor raised.
C9_TerminatesWithOneOutcome ==
    /\ \A i \in Callers : (Running(i) ~> pc[i] = "done")
    /\ [](\A i \in Callers :
              /\ pc[i] = "done" => ((result[i] # NoValue) # (error[i] # Nothing))
              /\ pc[i] # "done" => (result[i] = NoValue /\ error[i] = Nothing)
              /\ Returned(i) => ValidAnswer(Last(outcomes[i]))
              /\ Failed(i) =>
                    \/ /\ RetryableFailure(Last(outcomes[i]))
                       /\ error[i] = Last(outcomes[i]).exc
                       /\ tries[i] = 3
                    \/ /\ OtherFailure(Last(outcomes[i]))
                       /\ error[i] = Last(outcomes[i]).exc
                    \/ /\ EmptyAnswer(Last(outcomes[i]))
                       /\ error[i] = "AssertionError")

\* C9 witness: a call is over with the error of its third attempt.
C9_Witness ==
    \E i \in Callers :
        /\ Failed(i)
        /\ tries[i] = 3
        /\ error[i] = "APITimeoutError"
        /\ result[i] = NoValue

\* C10 as stated: the number of waits of a finished call is its number of
\* attempts minus 1, and the wait before attempt 3 is longer than the wait
\* before attempt 2.
C10_WaitsGrow ==
    \A i \in Callers :
        /\ pc[i] = "done" => Len(waits[i]) = tries[i] - 1
        /\ Len(waits[i]) >= 2 => waits[i][2] > waits[i][1]

\* C10 amended: a wait occurs exactly between two consecutive attempts (none
\* before the first attempt, none after the last one), and the wait before
\* attempt n + 1 lasts between 0 and 2 ** (n - 1) seconds: the upper limit
\* doubles, the wait itself is drawn below it.
C10_WaitsBetweenAttemptsJittered ==
    \A i \in Callers :
        /\ pc[i] \in {"await", "done"} => Len(waits[i]) = tries[i] - 1
        /\ pc[i] \in {"idle", "try", "sleep"} => Len(waits[i]) = tries[i]
        /\ Len(waits[i]) <= 2
        /\ Len(waits[i]) >= 1 => waits[i][1] \in 0 .. (1 * JitterSteps)
        /\ Len(waits[i]) >= 2 => waits[i][2] \in 0 .. (2 * JitterSteps)

\* C10 witness: a finished call of 3 attempts whose second wait was not
\* longer than its first.
C10_Witness ==
    \E i \in Callers :
        /\ pc[i] = "done"
        /\ tries[i] = 3
        /\ Len(waits[i]) = 2
        /\ waits[i][2] <= waits[i][1]
        /\ waits[i][1] = 1 * JitterSteps

====
